---- MODULE Spec2Model ----
(***************************************************************************)
(* State-synchronisation model of the recording interface.                 *)
(*                                                                         *)
(* The useMIDIController hook (src/src/utils/useMIDIController.js) keeps a *)
(* cached snapshot {isConnected, isPlaying, backingVolume,                 *)
(* trackDiscoveryComplete} of a MIDI bridge reached over HTTP.  Three      *)
(* setInterval timers poll the bridge, togglePlayPause submits transport   *)
(* intents.  Every fetch is an asynchronous operation: the request is      *)
(* issued in one step, the bridge answers it in another, and the           *)
(* continuation after `await` runs in a third, so requests and responses   *)
(* of different operations interleave freely.                              *)
(*                                                                         *)
(* The hook is used by the root component (IphoneFrame), which index.jsx   *)
(* renders inside <StrictMode> and never unmounts: the effect cleanup runs *)
(* only in a development build, where React runs effect, cleanup, effect   *)
(* in the first commit and keeps the component state.                      *)
(*                                                                         *)
(* JavaScript values of is_playing are written as the strings "true",      *)
(* "false" and "undefined" (a field absent from a response body).          *)
(***************************************************************************)
EXTENDS Integers, FiniteSets, Bags, TLC

\* ---------------------------------------------------------------- bounds
\* at most this many HTTP requests are in flight at once
MaxInFlight == 2
\* at most this many setInterval timers of the MIDIController exist at once
MaxTimers == 4
\* the pointer is at most this far above or below the fader track
PointerMargin == 7
\* fader levels are 0..MaxVolume (the interval [0,1] in MaxVolume steps)
MaxVolume == 1

Volumes == 0..MaxVolume
\* arguments of sendFaderChange: also one step below and one above the range
FaderInputs == (0 - 1)..(MaxVolume + 1)
TrackNames == {"Backing"}
JSBool == {"true", "false"}
Undefined == "undefined"

VARIABLES
    \* hook state (useState cells)
    isConnected, isPlaying, backingVolume, trackDiscoveryComplete,
    \* effect lifecycle
    mounted,       \* the first commit (effect) has happened
    intervals,     \* active timers, each a set of effect runs
    \* requests in flight
    statusReqs, playStateReqs, volumeReqs, playReqs,
    \* observation
    lastCall,      \* the call or poll that completed in the last step
    \* bridge (external collaborator)
    bridgePlaying, bridgeVolume, bridgeDiscovered,
    bridgeStable,  \* from now on the bridge stays reachable and connected
    \* POST /fader and POST /discover-tracks requests in flight
    faderReqs, discoverReqs,
    \* observation
    acked,         \* {v}: sendFaderChange('Backing', v) was accepted and
                   \* nothing has moved the backing fader since; else {}
    probes,        \* failed: connection probes that failed in a row;
                   \* recovered: ProbeLimit failures in a row were followed
                   \* by probes that all reported connected=true
    \* the 'Backing' FaderComponent: its `value` state, in half steps
    \* (2 * MaxVolume is 1.0)
    faderValue,
    isDragging,    \* its `isDragging` state
    faderObs,      \* the last mouse event on it and what onChange was given
    \* the MIDIController singleton (midiController_old.js): the object, the
    \* intervals active in the runtime, its fetches in flight
    midiController, activeIntervals, ctlStatusReqs, ctlPlayStateReqs,
    \* observation of the calls made on the MIDIController
    ctlObs

snapshot == <<isConnected, isPlaying, backingVolume, trackDiscoveryComplete>>
lifeVars == <<mounted, intervals>>
pollReqs == <<statusReqs, playStateReqs, volumeReqs>>
bridgeVars == <<bridgePlaying, bridgeVolume, bridgeDiscovered, bridgeStable>>
faderVars == <<faderReqs, discoverReqs, acked>>
sideVars == <<faderVars, probes>>
ctlVars == <<midiController, activeIntervals, ctlStatusReqs, ctlPlayStateReqs,
             ctlObs>>
compVars == <<isDragging, faderObs>>
extVars == <<faderValue, compVars, ctlVars>>
vars == <<snapshot, lifeVars, pollReqs, playReqs, lastCall,
          bridgeVars, faderVars, probes, extVars>>

\* ------------------------------------------------------------- helpers
\* JavaScript `!v` on a value that is true, false or undefined
Not(v) == IF v = "true" THEN "false" ELSE "true"

One(r) == SetToBag({r})

\* A request or timer belongs to the effect run that created it: the one in
\* force ("live"), or one whose cleanup has run ("cleaned").
Effects == {"live", "cleaned"}

InFlight ==
    BagCardinality(statusReqs) + BagCardinality(playStateReqs)
        + BagCardinality(volumeReqs) + Cardinality(playReqs)
        + Cardinality(faderReqs) + BagCardinality(discoverReqs)

\* no connection probe has failed
NoProbes == [failed |-> 0, recovered |-> FALSE]

\* no call completed in the last step
NoCall ==
    [outcome |-> "none", seq |-> 0, play |-> "false", is_playing |-> "false",
     staleFalse |-> FALSE, result |-> "none", after |-> {}]

StatusSent(e) ==
    [effect |-> e, phase |-> "sent", connected |-> FALSE, is_playing |-> Undefined]
PlayStateSent(e) ==
    [effect |-> e, stamp |-> Cardinality(playReqs), phase |-> "sent",
     is_playing |-> Undefined, superseded |-> "none"]
VolumeSent(e) ==
    [effect |-> e, phase |-> "sent", backing |-> 0, discovered |-> FALSE,
     after |-> acked]

\* ---------------------------------------------------------------- Init
\* FaderComponent's useState(initialValue), initialValue = 0.5
InitialValue == MaxVolume

\* `null`, as a timer handle (falsy, like no interval id)
NullHandle == 0

\* op: the call or delivery that ran in the last step, if stopPolling(),
\* disconnect() or the delivery of a play-state response; repeat: it was
\* the same call as in the step before; invoked: it invoked the play-state
\* callback; late: the callback that was registered when a disconnect() found
\* the ok play-state response it delivered in flight ("none" if none did);
\* tornCallback: disconnect() has returned and no callback was registered
\* since; tornConnection: ... and checkConnection() was not called since;
\* tornTimers: ... and initialize() was not called since
NoCtlObs ==
    [op |-> "none", repeat |-> FALSE, invoked |-> FALSE, late |-> "none",
     tornCallback |-> FALSE, tornConnection |-> FALSE, tornTimers |-> FALSE]

\* event: the last mouse event; relativeY: its pointer position, from the
\* top of the track; emitted: {v} if onChange(v) was called for it, else {}
NoFaderObs == [event |-> "none", relativeY |-> 0, emitted |-> {}]

ExtInit ==
    /\ faderValue = InitialValue
    /\ isDragging = FALSE
    /\ faderObs = NoFaderObs
    /\ midiController = [isConnected |-> "false", playStateCallback |-> "null",
                         playStatePollingInterval |-> NullHandle,
                         connectionPollingInterval |-> NullHandle]
    /\ activeIntervals = [playState |-> {}, connection |-> {}]
    /\ ctlStatusReqs = EmptyBag
    /\ ctlPlayStateReqs = EmptyBag
    /\ ctlObs = NoCtlObs

\* the hook as constructed, not yet mounted
HookInit ==
    /\ isConnected = FALSE
    /\ isPlaying = "false"
    /\ backingVolume = 0
    /\ trackDiscoveryComplete = FALSE
    /\ mounted = FALSE
    /\ intervals = [connectionInterval |-> {}, playStateInterval |-> {},
                    volumeInterval |-> {}]
    /\ statusReqs = EmptyBag
    /\ playStateReqs = EmptyBag
    /\ volumeReqs = EmptyBag
    /\ playReqs = {}
    /\ lastCall = NoCall
    /\ bridgePlaying \in JSBool
    /\ bridgeVolume = MaxVolume
    /\ bridgeDiscovered = TRUE
    /\ bridgeStable = FALSE
    /\ faderReqs = {}
    /\ discoverReqs = EmptyBag
    /\ acked = {}
    /\ probes = NoProbes

Init ==
    /\ HookInit
    /\ ExtInit

\* ------------------------------------------------------ effect lifecycle
\* an effect body that never starts the connection timer
EffectSetIntervals_NoProbeTimer(t) ==
    [connectionInterval |-> t.connectionInterval,
     playStateInterval |-> t.playStateInterval \cup {"live"},
     volumeInterval |-> t.volumeInterval \cup {"live"}]

\* the three setInterval calls of the effect body
EffectSetIntervals(t) ==
    [connectionInterval |-> t.connectionInterval \cup {"live"},
     playStateInterval |-> t.playStateInterval \cup {"live"},
     volumeInterval |-> t.volumeInterval \cup {"live"}]

\* a cleanup that forgets clearInterval(volumeInterval)
EffectCleanup_KeepsVolume(t) ==
    [connectionInterval |-> t.connectionInterval \ {"live"},
     playStateInterval |-> t.playStateInterval \ {"live"},
     volumeInterval |-> t.volumeInterval]

\* the cleanup function returned by the effect: three clearInterval calls
EffectCleanup(t) ==
    [connectionInterval |-> t.connectionInterval \ {"live"},
     playStateInterval |-> t.playStateInterval \ {"live"},
     volumeInterval |-> t.volumeInterval \ {"live"}]

\* once its cleanup has run, whatever an effect run left behind belongs to a
\* cleaned-up effect
Retire(t) ==
    LET old(h) == (h \ {"live"}) \cup (IF "live" \in h THEN {"cleaned"} ELSE {})
    IN  [connectionInterval |-> old(t.connectionInterval),
         playStateInterval |-> old(t.playStateInterval),
         volumeInterval |-> old(t.volumeInterval)]

\* First commit: the effect body runs (initial checkConnection(), three
\* timers).  In a StrictMode development build (strict) React then runs the
\* cleanup and the effect body a second time, in the same commit; the first
\* run's GET /status stays in flight.
Mount ==
    /\ ~mounted
    /\ mounted' = TRUE
    /\ \E strict \in BOOLEAN :
         IF strict
         THEN /\ statusReqs' = statusReqs (+) One(StatusSent("cleaned"))
                                          (+) One(StatusSent("live"))
              /\ intervals' =
                   EffectSetIntervals(
                       Retire(EffectCleanup(EffectSetIntervals(intervals))))
         ELSE /\ statusReqs' = statusReqs (+) One(StatusSent("live"))
              /\ intervals' = EffectSetIntervals(intervals)
    /\ lastCall' = NoCall
    /\ UNCHANGED <<extVars, sideVars, snapshot, playStateReqs, volumeReqs, playReqs,
                   bridgeVars>>

\* ------------------------------------------------------------- bridge
\* The bridge process is not part of the sources; it is modelled from the
\* interface the hook consumes: it holds the transport state and the backing
\* channel, answers each request from its state at the time it handles it,
\* and its transport state also changes on the device side.
BridgeConnected == IF bridgeStable THEN {TRUE} ELSE BOOLEAN

BridgeAnswerStatus(r) ==
    /\ r.phase = "sent"
    /\ \E c \in BridgeConnected, p \in {bridgePlaying, Undefined} :
         statusReqs' = (statusReqs (-) One(r))
             (+) One([r EXCEPT !.phase = "answered", !.connected = c,
                               !.is_playing = p])
    /\ lastCall' = NoCall
    /\ UNCHANGED <<extVars, sideVars, snapshot, lifeVars, playStateReqs, volumeReqs, playReqs, bridgeVars>>

BridgeAnswerPlayState(r) ==
    /\ r.phase = "sent"
    /\ playStateReqs' = (playStateReqs (-) One(r))
           (+) One([r EXCEPT !.phase = "answered", !.is_playing = bridgePlaying])
    /\ lastCall' = NoCall
    /\ UNCHANGED <<extVars, sideVars, snapshot, lifeVars, statusReqs, volumeReqs, playReqs, bridgeVars>>

BridgeAnswerTrackVolumes(r) ==
    /\ r.phase = "sent"
    /\ volumeReqs' = (volumeReqs (-) One(r))
           (+) One([r EXCEPT !.phase = "answered", !.backing = bridgeVolume,
                             !.discovered = bridgeDiscovered,
                             !.after = IF acked = @ THEN @ ELSE {}])
    /\ lastCall' = NoCall
    /\ UNCHANGED <<extVars, sideVars, snapshot, lifeVars, statusReqs, playStateReqs, playReqs, bridgeVars>>

\* POST /play {play: p}: the bridge applies the requested transport state ...
BridgeApplyPlay(r) ==
    /\ r.phase = "sent"
    /\ bridgePlaying' = r.play
    /\ playReqs' = (playReqs \ {r}) \cup {[r EXCEPT !.phase = "applied"]}
    /\ lastCall' = NoCall
    /\ UNCHANGED <<extVars, sideVars, snapshot, lifeVars, pollReqs, bridgeVolume,
                   bridgeDiscovered, bridgeStable>>

\* ... and then reports {status: "ok", is_playing} from its state
BridgeReplyPlay(r) ==
    /\ r.phase = "applied"
    /\ playReqs' = (playReqs \ {r})
           \cup {[r EXCEPT !.phase = "answered", !.status = "ok",
                           !.is_playing = bridgePlaying]}
    /\ lastCall' = NoCall
    /\ UNCHANGED <<extVars, sideVars, snapshot, lifeVars, pollReqs, bridgeVars>>

\* or it rejects the request: {status: "error", message}
BridgeRejectPlay(r) ==
    /\ r.phase = "sent"
    /\ playReqs' = (playReqs \ {r})
           \cup {[r EXCEPT !.phase = "answered", !.status = "error"]}
    /\ lastCall' = NoCall
    /\ UNCHANGED <<extVars, sideVars, snapshot, lifeVars, pollReqs, bridgeVars>>

\* play/pause pressed on the device side
ExternalTransportChange ==
    /\ bridgePlaying' = Not(bridgePlaying)
    /\ lastCall' = NoCall
    /\ UNCHANGED <<extVars, sideVars, snapshot, lifeVars, pollReqs, playReqs,
                   bridgeVolume, bridgeDiscovered, bridgeStable>>

\* ---------------------------------------------------- checkConnection
\* timer tick of connectionInterval: checkConnection() issues GET /api/status
CheckConnection(e) ==
    /\ e \in intervals.connectionInterval
    /\ InFlight < MaxInFlight
    /\ statusReqs' = statusReqs (+) One(StatusSent(e))
    /\ lastCall' = NoCall
    /\ UNCHANGED <<extVars, sideVars, snapshot, lifeVars, playStateReqs, volumeReqs, playReqs, bridgeVars>>

\* a continuation that can only demote the connection
CheckConnectionOk_NoReconnect(r) ==
    /\ r.phase = "answered"
    /\ statusReqs' = statusReqs (-) One(r)
    /\ isConnected' = (isConnected /\ r.connected)
    /\ isPlaying' = r.is_playing
    /\ lastCall' = NoCall
    /\ UNCHANGED <<extVars, faderVars, backingVolume, trackDiscoveryComplete, lifeVars,
                   playStateReqs, volumeReqs, playReqs,
                   bridgeVars>>

\* continuation after the awaits: setIsConnected, setIsPlaying
CheckConnectionOk(r) ==
    /\ r.phase = "answered"
    /\ statusReqs' = statusReqs (-) One(r)
    /\ isConnected' = r.connected
    /\ isPlaying' = r.is_playing
    /\ lastCall' = NoCall
    /\ UNCHANGED <<extVars, faderVars, backingVolume, trackDiscoveryComplete, lifeVars,
                   playStateReqs, volumeReqs, playReqs,
                   bridgeVars>>

\* catch: the request did not complete
CheckConnectionError(r) ==
    /\ statusReqs' = statusReqs (-) One(r)
    /\ isConnected' = FALSE
    /\ lastCall' = NoCall
    /\ UNCHANGED <<extVars, faderVars, isPlaying, backingVolume, trackDiscoveryComplete, lifeVars,
                   playStateReqs, volumeReqs, playReqs,
                   bridgeVars>>

\* ------------------------------------------------------ pollPlayState
\* timer tick of playStateInterval: GET /api/play-state
PollPlayState(e) ==
    /\ e \in intervals.playStateInterval
    /\ InFlight < MaxInFlight
    /\ playStateReqs' = playStateReqs (+) One(PlayStateSent(e))
    /\ lastCall' = NoCall
    /\ UNCHANGED <<extVars, sideVars, snapshot, lifeVars, statusReqs, volumeReqs, playReqs, bridgeVars>>

\* observation: a transport intent asking for play=true, still outstanding,
\* saw a play-state poll deliver is_playing=false
MarkStale(p, polled) ==
    IF p.play = "true" /\ polled = "false"
    THEN [p EXCEPT !.staleFalse = TRUE] ELSE p

\* a continuation that drops the polled value
PollPlayStateOk_Ignored(r) ==
    /\ r.phase = "answered"
    /\ playStateReqs' = playStateReqs (-) One(r)
    /\ lastCall' = NoCall
    /\ UNCHANGED <<extVars, sideVars, snapshot, lifeVars, statusReqs, volumeReqs,
                   playReqs, bridgeVars>>

\* continuation: setIsPlaying(data.is_playing)
PollPlayStateOk(r) ==
    /\ r.phase = "answered"
    /\ playStateReqs' = playStateReqs (-) One(r)
    /\ isPlaying' = r.is_playing
    /\ playReqs' = {MarkStale(p, r.is_playing) : p \in playReqs}
    /\ lastCall' = NoCall
    /\ UNCHANGED <<extVars, sideVars, isConnected, backingVolume, trackDiscoveryComplete,
                   lifeVars, statusReqs, volumeReqs, bridgeVars>>

\* a catch that also demotes the connection, as checkConnection's does
PollPlayStateError_Disconnects(r) ==
    /\ playStateReqs' = playStateReqs (-) One(r)
    /\ isConnected' = FALSE
    /\ lastCall' = [NoCall EXCEPT !.outcome = "poll failed"]
    /\ UNCHANGED <<extVars, sideVars, isPlaying, backingVolume, trackDiscoveryComplete,
                   lifeVars, statusReqs, volumeReqs, playReqs, bridgeVars>>

\* catch: logged only
PollPlayStateError(r) ==
    /\ playStateReqs' = playStateReqs (-) One(r)
    /\ lastCall' = [NoCall EXCEPT !.outcome = "poll failed"]
    /\ UNCHANGED <<extVars, sideVars, snapshot, lifeVars, statusReqs, volumeReqs, playReqs, bridgeVars>>

\* --------------------------------------------------- pollTrackVolumes
\* timer tick of volumeInterval: GET /api/track-volumes
PollTrackVolumes(e) ==
    /\ e \in intervals.volumeInterval
    /\ InFlight < MaxInFlight
    /\ volumeReqs' = volumeReqs (+) One(VolumeSent(e))
    /\ lastCall' = NoCall
    /\ UNCHANGED <<extVars, sideVars, snapshot, lifeVars, statusReqs, playStateReqs, playReqs, bridgeVars>>

\* continuation: setBackingVolume, setTrackDiscoveryComplete
PollTrackVolumesOk(r) ==
    /\ r.phase = "answered"
    /\ volumeReqs' = volumeReqs (-) One(r)
    /\ backingVolume' = r.backing
    /\ trackDiscoveryComplete' = r.discovered
    /\ lastCall' = [NoCall EXCEPT !.outcome = "volumes polled",
                                  !.after = r.after]
    /\ UNCHANGED <<extVars, sideVars, isConnected, isPlaying, lifeVars, statusReqs, playStateReqs,
                   playReqs, bridgeVars>>

\* catch: logged only
PollTrackVolumesError(r) ==
    /\ volumeReqs' = volumeReqs (-) One(r)
    /\ lastCall' = [NoCall EXCEPT !.outcome = "poll failed"]
    /\ UNCHANGED <<extVars, sideVars, snapshot, lifeVars, statusReqs, playStateReqs, playReqs, bridgeVars>>

\* ---------------------------------------------------- togglePlayPause
\* the value an invocation of togglePlayPause resolves to: no path of the
\* function returns a value
TogglePlayPauseResult(outcome) == Undefined

Completed(r, outcome) ==
    [outcome |-> outcome, seq |-> r.seq, play |-> r.play,
     is_playing |-> r.is_playing, staleFalse |-> r.staleFalse,
     result |-> TogglePlayPauseResult(outcome), after |-> {}]

\* a togglePlayPause that flips isPlaying when it submits the request
TogglePlayPause_Optimistic ==
    /\ mounted
    /\ isConnected
    /\ InFlight < MaxInFlight
    /\ playReqs' = playReqs \cup
         {[seq |-> Cardinality(playReqs) + 1, play |-> Not(isPlaying),
           phase |-> "sent", status |-> "none",
           is_playing |-> Undefined, staleFalse |-> FALSE]}
    /\ isPlaying' = Not(isPlaying)
    /\ lastCall' = NoCall
    /\ UNCHANGED <<extVars, sideVars, isConnected, backingVolume,
                   trackDiscoveryComplete, lifeVars, pollReqs, bridgeVars>>

\* a togglePlayPause without the isConnected check of line 67
TogglePlayPause_NoGuard ==
    /\ mounted
    /\ InFlight < MaxInFlight
    /\ playReqs' = playReqs \cup
         {[seq |-> Cardinality(playReqs) + 1, play |-> Not(isPlaying),
           phase |-> "sent", status |-> "none",
           is_playing |-> Undefined, staleFalse |-> FALSE]}
    /\ lastCall' = NoCall
    /\ UNCHANGED <<extVars, sideVars, snapshot, lifeVars, pollReqs, bridgeVars>>

\* the play button is pressed: togglePlayPause() of the current render
TogglePlayPause ==
    /\ mounted
    /\ IF ~isConnected
       THEN \* early return
            /\ lastCall' = [NoCall EXCEPT !.outcome = "not connected",
                              !.result = TogglePlayPauseResult("not connected")]
            /\ UNCHANGED playReqs
       ELSE /\ InFlight < MaxInFlight
            /\ playReqs' = playReqs \cup
                 {[seq |-> Cardinality(playReqs) + 1, play |-> Not(isPlaying),
                   phase |-> "sent", status |-> "none",
                   is_playing |-> Undefined, staleFalse |-> FALSE]}
            /\ lastCall' = NoCall
    /\ UNCHANGED <<extVars, sideVars, snapshot, lifeVars, pollReqs, bridgeVars>>

\* observation: the play-state poll q was issued before r was submitted and
\* is still in flight when r is confirmed
MarkSuperseded(q, r) ==
    IF q.stamp < r.seq THEN [q EXCEPT !.superseded = r.is_playing] ELSE q

\* seq numbers the outstanding intents in submission order, and the stamp of
\* a poll counts the outstanding intents submitted before the poll was
\* issued: both are renumbered when the intent r completes
Renumber(p, r) == IF p.seq > r.seq THEN [p EXCEPT !.seq = @ - 1] ELSE p
Restamp(q, r) == IF q.stamp >= r.seq THEN [q EXCEPT !.stamp = @ - 1] ELSE q

\* the outstanding intents once r has completed
OtherIntents(r) == {Renumber(p, r) : p \in playReqs \ {r}}

\* the play-state polls in flight once r has completed (confirmed ok or not)
PollsAfter(r, ok) ==
    LET S == BagToSet(playStateReqs)
        F(q) == Restamp(IF ok THEN MarkSuperseded(q, r) ELSE q, r)
    IN  IF S = {} THEN EmptyBag
        ELSE [y \in {F(q) : q \in S} |->
                BagCardinality([q \in {x \in S : F(x) = y}
                                  |-> CopiesIn(q, playStateReqs)])]

\* an ok branch that sets the requested value: setIsPlaying(!isPlaying)
TogglePlayPauseOk_Requested(r) ==
    /\ r.phase = "answered" /\ r.status = "ok"
    /\ isPlaying' = r.play
    /\ playReqs' = OtherIntents(r)
    /\ playStateReqs' = PollsAfter(r, TRUE)
    /\ lastCall' = Completed(r, "ok")
    /\ UNCHANGED <<extVars, sideVars, isConnected, backingVolume, trackDiscoveryComplete,
                   lifeVars, statusReqs, volumeReqs, bridgeVars>>

\* an ok branch that only logs
TogglePlayPauseOk_NoUpdate(r) ==
    /\ r.phase = "answered" /\ r.status = "ok"
    /\ playReqs' = OtherIntents(r)
    /\ playStateReqs' = PollsAfter(r, TRUE)
    /\ lastCall' = Completed(r, "ok")
    /\ UNCHANGED <<extVars, sideVars, snapshot, lifeVars, statusReqs, volumeReqs,
                   bridgeVars>>

\* continuation, data.status === 'ok': setIsPlaying(data.is_playing)
TogglePlayPauseOk(r) ==
    /\ r.phase = "answered" /\ r.status = "ok"
    /\ isPlaying' = r.is_playing
    /\ playReqs' = OtherIntents(r)
    /\ playStateReqs' = PollsAfter(r, TRUE)
    /\ lastCall' = Completed(r, "ok")
    /\ UNCHANGED <<extVars, sideVars, isConnected, backingVolume, trackDiscoveryComplete,
                   lifeVars, statusReqs, volumeReqs, bridgeVars>>

\* continuation, any other status: logged only
TogglePlayPauseRejected(r) ==
    /\ r.phase = "answered" /\ r.status # "ok"
    /\ playReqs' = OtherIntents(r)
    /\ playStateReqs' = PollsAfter(r, FALSE)
    /\ lastCall' = Completed(r, "rejected")
    /\ UNCHANGED <<extVars, sideVars, snapshot, lifeVars, statusReqs, volumeReqs, bridgeVars>>

\* a catch that also demotes the connection, as checkConnection's does
TogglePlayPauseError_Disconnects(r) ==
    /\ playReqs' = OtherIntents(r)
    /\ playStateReqs' = PollsAfter(r, FALSE)
    /\ isConnected' = FALSE
    /\ lastCall' = Completed(r, "network error")
    /\ UNCHANGED <<extVars, sideVars, isPlaying, backingVolume, trackDiscoveryComplete, lifeVars,
                   statusReqs, volumeReqs, bridgeVars>>

\* catch: the request did not complete, logged only
TogglePlayPauseError(r) ==
    /\ playReqs' = OtherIntents(r)
    /\ playStateReqs' = PollsAfter(r, FALSE)
    /\ lastCall' = Completed(r, "network error")
    /\ UNCHANGED <<extVars, sideVars, snapshot, lifeVars, statusReqs, volumeReqs, bridgeVars>>

\* ---------------------------------------------------- sendFaderChange
\* trackName.toLowerCase()
ToLowerCase(trackName) ==
    CASE trackName = "Backing" -> "backing"
      [] trackName = "Me" -> "me"
      [] OTHER -> trackName

\* a body that carries the complement of the value
FaderBody_Inverted(trackName, value) ==
    [track |-> ToLowerCase(trackName), value |-> MaxVolume - value]

\* the JSON body of POST /api/fader: the value is sent as it was passed
FaderBody(trackName, value) ==
    [track |-> ToLowerCase(trackName), value |-> value]

\* what an invocation of sendFaderChange resolves to
SendFaderChangeResult(outcome) == IF outcome = "fader ok" THEN "true" ELSE "false"

FaderCompleted(r, outcome) ==
    [NoCall EXCEPT !.outcome = outcome,
                   !.result = SendFaderChangeResult(outcome)]

\* a fader is moved: sendFaderChange(trackName, value); isConnected is not
\* consulted
SendFaderChange(trackName, value) ==
    /\ mounted
    /\ InFlight < MaxInFlight
    /\ faderReqs' = faderReqs \cup
         {[seq |-> Cardinality(faderReqs) + 1, trackName |-> trackName,
           value |-> value, body |-> FaderBody(trackName, value),
           phase |-> "sent", status |-> "none", intact |-> FALSE]}
    /\ lastCall' = NoCall
    /\ UNCHANGED <<snapshot, lifeVars, pollReqs, playReqs, bridgeVars,
                   discoverReqs, acked, probes, extVars>>

\* the position the control surface takes for a requested value
Clamp(v) == IF v < 0 THEN 0 ELSE IF v > MaxVolume THEN MaxVolume ELSE v

\* observation: another write of the backing channel happened after p's
Overwritten(p) == [p EXCEPT !.intact = FALSE]

\* POST /fader {track, value}: the bridge moves the fader of the channel and
\* answers {status: "ok"}; only the channel "backing" is reported by
\* GET /track-volumes
BridgeApplyFader(r) ==
    /\ r.phase = "sent"
    /\ IF r.body.track = "backing"
       THEN /\ bridgeVolume' = Clamp(r.body.value)
            /\ faderReqs' = {Overwritten(p) : p \in faderReqs \ {r}} \cup
                 {[r EXCEPT !.phase = "answered", !.status = "ok",
                            !.intact = (r.trackName = "Backing")]}
            /\ acked' = {}
       ELSE /\ faderReqs' = (faderReqs \ {r}) \cup
                 {[r EXCEPT !.phase = "answered", !.status = "ok"]}
            /\ UNCHANGED <<bridgeVolume, acked>>
    /\ lastCall' = NoCall
    /\ UNCHANGED <<snapshot, lifeVars, pollReqs, playReqs, discoverReqs,
                   bridgePlaying, bridgeDiscovered, bridgeStable, probes, extVars>>

\* or it rejects the request: {status: "error", message}
BridgeRejectFader(r) ==
    /\ r.phase = "sent"
    /\ faderReqs' = (faderReqs \ {r}) \cup
         {[r EXCEPT !.phase = "answered", !.status = "error"]}
    /\ lastCall' = NoCall
    /\ UNCHANGED <<snapshot, lifeVars, pollReqs, playReqs, bridgeVars,
                   discoverReqs, acked, probes, extVars>>

\* the fader is moved at the mixing desk
ExternalVolumeChange ==
    /\ \E v \in Volumes \ {bridgeVolume} : bridgeVolume' = v
    /\ faderReqs' = {Overwritten(p) : p \in faderReqs}
    /\ acked' = {}
    /\ lastCall' = NoCall
    /\ UNCHANGED <<snapshot, lifeVars, pollReqs, playReqs, discoverReqs,
                   bridgePlaying, bridgeDiscovered, bridgeStable, probes, extVars>>

\* the fader requests in flight once r has completed
OtherFaders(r) == {Renumber(p, r) : p \in faderReqs \ {r}}

\* continuation, data.status === 'ok': return true
SendFaderChangeOk(r) ==
    /\ r.phase = "answered" /\ r.status = "ok"
    /\ faderReqs' = OtherFaders(r)
    /\ acked' = IF r.intact /\ r.value \in Volumes THEN {r.value} ELSE acked
    /\ lastCall' = FaderCompleted(r, "fader ok")
    /\ UNCHANGED <<snapshot, lifeVars, pollReqs, playReqs, bridgeVars,
                   discoverReqs, probes, extVars>>

\* continuation, any other status: return false
SendFaderChangeRejected(r) ==
    /\ r.phase = "answered" /\ r.status # "ok"
    /\ faderReqs' = OtherFaders(r)
    /\ lastCall' = FaderCompleted(r, "fader rejected")
    /\ UNCHANGED <<snapshot, lifeVars, pollReqs, playReqs, bridgeVars,
                   discoverReqs, acked, probes, extVars>>

\* a catch that sends the request once more
SendFaderChangeError_Retries(r) ==
    /\ faderReqs' = OtherFaders(r) \cup
         {[r EXCEPT !.seq = Cardinality(faderReqs), !.phase = "sent",
                    !.status = "none", !.intact = FALSE]}
    /\ lastCall' = FaderCompleted(r, "fader network error")
    /\ UNCHANGED <<snapshot, lifeVars, pollReqs, playReqs, bridgeVars,
                   discoverReqs, acked, probes, extVars>>

\* catch: the request did not complete, return false
SendFaderChangeError(r) ==
    /\ faderReqs' = OtherFaders(r)
    /\ lastCall' = FaderCompleted(r, "fader network error")
    /\ UNCHANGED <<snapshot, lifeVars, pollReqs, playReqs, bridgeVars,
                   discoverReqs, acked, probes, extVars>>

\* ----------------------------------------------- triggerTrackDiscovery
DiscoverySent == [phase |-> "sent", status |-> "none"]

TriggerTrackDiscoveryResult(outcome) ==
    IF outcome = "discovery ok" THEN "true" ELSE "false"

DiscoveryCompleted(outcome) ==
    [NoCall EXCEPT !.outcome = outcome,
                   !.result = TriggerTrackDiscoveryResult(outcome)]

\* triggerTrackDiscovery(): POST /api/discover-tracks
TriggerTrackDiscovery ==
    /\ mounted
    /\ InFlight < MaxInFlight
    /\ discoverReqs' = discoverReqs (+) One(DiscoverySent)
    /\ lastCall' = NoCall
    /\ UNCHANGED <<snapshot, lifeVars, pollReqs, playReqs, bridgeVars,
                   faderReqs, acked, probes, extVars>>

\* POST /discover-tracks: the bridge starts binding and answers
\* {status: "ok"}; the binding may be complete at once or later
BridgeAcceptDiscovery(r) ==
    /\ r.phase = "sent"
    /\ discoverReqs' = (discoverReqs (-) One(r))
           (+) One([r EXCEPT !.phase = "answered", !.status = "ok"])
    /\ bridgeDiscovered' \in {bridgeDiscovered, TRUE}
    /\ lastCall' = NoCall
    /\ UNCHANGED <<snapshot, lifeVars, pollReqs, playReqs, faderReqs, acked,
                   bridgePlaying, bridgeVolume, bridgeStable, probes, extVars>>

BridgeRejectDiscovery(r) ==
    /\ r.phase = "sent"
    /\ discoverReqs' = (discoverReqs (-) One(r))
           (+) One([r EXCEPT !.phase = "answered", !.status = "error"])
    /\ lastCall' = NoCall
    /\ UNCHANGED <<snapshot, lifeVars, pollReqs, playReqs, bridgeVars,
                   faderReqs, acked, probes, extVars>>

\* the binding of the backing channel completes, or is lost
BridgeDiscoveryChange ==
    /\ bridgeDiscovered' = ~bridgeDiscovered
    /\ lastCall' = NoCall
    /\ UNCHANGED <<snapshot, lifeVars, pollReqs, playReqs, faderVars,
                   bridgePlaying, bridgeVolume, bridgeStable, probes, extVars>>

\* a continuation that takes the ok answer for the completion
TriggerTrackDiscoveryOk_SetsComplete(r) ==
    /\ r.phase = "answered" /\ r.status = "ok"
    /\ discoverReqs' = discoverReqs (-) One(r)
    /\ trackDiscoveryComplete' = TRUE
    /\ lastCall' = DiscoveryCompleted("discovery ok")
    /\ UNCHANGED <<isConnected, isPlaying, backingVolume, lifeVars, pollReqs,
                   playReqs, bridgeVars, faderReqs, acked, probes, extVars>>

\* continuation, data.status === 'ok': return true
TriggerTrackDiscoveryOk(r) ==
    /\ r.phase = "answered" /\ r.status = "ok"
    /\ discoverReqs' = discoverReqs (-) One(r)
    /\ lastCall' = DiscoveryCompleted("discovery ok")
    /\ UNCHANGED <<snapshot, lifeVars, pollReqs, playReqs, bridgeVars,
                   faderReqs, acked, probes, extVars>>

\* continuation, any other status: return false
TriggerTrackDiscoveryRejected(r) ==
    /\ r.phase = "answered" /\ r.status # "ok"
    /\ discoverReqs' = discoverReqs (-) One(r)
    /\ lastCall' = DiscoveryCompleted("discovery rejected")
    /\ UNCHANGED <<snapshot, lifeVars, pollReqs, playReqs, bridgeVars,
                   faderReqs, acked, probes, extVars>>

\* catch: return false
TriggerTrackDiscoveryError(r) ==
    /\ discoverReqs' = discoverReqs (-) One(r)
    /\ lastCall' = DiscoveryCompleted("discovery network error")
    /\ UNCHANGED <<snapshot, lifeVars, pollReqs, playReqs, bridgeVars,
                   faderReqs, acked, probes, extVars>>

\* ---------------------------------------------------------------- Next
Next ==
    \/ Mount
    \/ \E e \in Effects : CheckConnection(e)
    \/ \E e \in Effects : PollPlayState(e)
    \/ \E e \in Effects : PollTrackVolumes(e)
    \/ \E r \in BagToSet(statusReqs) : BridgeAnswerStatus(r)
    \/ \E r \in BagToSet(statusReqs) :
          CheckConnectionOk(r) /\ UNCHANGED probes
    \/ \E r \in BagToSet(statusReqs) :
          CheckConnectionError(r) /\ UNCHANGED probes
    \/ \E r \in BagToSet(playStateReqs) : BridgeAnswerPlayState(r)
    \/ \E r \in BagToSet(playStateReqs) : PollPlayStateOk(r)
    \/ \E r \in BagToSet(playStateReqs) : PollPlayStateError(r)
    \/ \E r \in BagToSet(volumeReqs) : BridgeAnswerTrackVolumes(r)
    \/ \E r \in BagToSet(volumeReqs) : PollTrackVolumesOk(r)
    \/ \E r \in BagToSet(volumeReqs) : PollTrackVolumesError(r)
    \/ TogglePlayPause
    \/ \E r \in playReqs : BridgeApplyPlay(r)
    \/ \E r \in playReqs : BridgeReplyPlay(r)
    \/ \E r \in playReqs : BridgeRejectPlay(r)
    \/ \E r \in playReqs : TogglePlayPauseOk(r)
    \/ \E r \in playReqs : TogglePlayPauseRejected(r)
    \/ \E r \in playReqs : TogglePlayPauseError(r)
    \/ ExternalTransportChange

Spec == Init /\ [][Next]_vars

\* -------------------------------------------- faders, discovery, probes
\* N of the demotion rule: consecutive failed connection probes
ProbeLimit == 3

\* observation: the connection probes that failed in a row, and the recovery
ProbeOk(r) ==
    /\ CheckConnectionOk(r)
    /\ probes' = [failed |-> 0,
                  recovered |-> /\ r.connected
                                /\ probes.failed = ProbeLimit \/ probes.recovered]

ProbeFailed(r) ==
    /\ CheckConnectionError(r)
    /\ probes' = [failed |-> IF probes.failed < ProbeLimit
                             THEN probes.failed + 1 ELSE ProbeLimit,
                  recovered |-> FALSE]

\* The hook once it is mounted and its first GET /status has been delivered
\* (connected or not), all three timers running, nothing in flight.
MountedInit ==
    /\ isConnected \in BOOLEAN
    /\ isPlaying = "false"
    /\ backingVolume = 0
    /\ trackDiscoveryComplete = FALSE
    /\ mounted = TRUE
    /\ intervals = EffectSetIntervals([connectionInterval |-> {},
                                       playStateInterval |-> {},
                                       volumeInterval |-> {}])
    /\ statusReqs = EmptyBag
    /\ playStateReqs = EmptyBag
    /\ volumeReqs = EmptyBag
    /\ playReqs = {}
    /\ lastCall = NoCall
    /\ bridgePlaying = "false"
    /\ bridgeStable = FALSE
    /\ faderReqs = {}
    /\ discoverReqs = EmptyBag
    /\ acked = {}
    /\ probes = NoProbes
    /\ ExtInit

\* faders: the mounted hook, the backing fader bound and also moved at the
\* mixing desk
FaderInit ==
    /\ MountedInit
    /\ bridgeVolume \in Volumes
    /\ bridgeDiscovered = TRUE

FaderNext ==
    \/ \E e \in Effects : PollTrackVolumes(e)
    \/ \E r \in BagToSet(volumeReqs) : BridgeAnswerTrackVolumes(r)
    \/ \E r \in BagToSet(volumeReqs) : PollTrackVolumesOk(r)
    \/ \E r \in BagToSet(volumeReqs) : PollTrackVolumesError(r)
    \/ \E t \in TrackNames, v \in FaderInputs : SendFaderChange(t, v)
    \/ \E r \in faderReqs : BridgeApplyFader(r)
    \/ \E r \in faderReqs : BridgeRejectFader(r)
    \/ \E r \in faderReqs : SendFaderChangeOk(r)
    \/ \E r \in faderReqs : SendFaderChangeRejected(r)
    \/ \E r \in faderReqs : SendFaderChangeError(r)
    \/ ExternalVolumeChange

FaderSpec == FaderInit /\ [][FaderNext]_vars

\* the 'Backing' fader on screen: <FaderComponent value={backingVolume}
\* faderName="Backing" onChange={handleBackingFaderChange} />.  The component
\* takes {faderName, className, initialValue, onChange}: the `value` prop is
\* not read, and what it shows is its own state
DisplayedValue == faderValue

\* a click on the track at level newValue (clamped to [0,1] by the
\* component): setValue(newValue); onChange(newValue), which is
\* handleBackingFaderChange: sendFaderChange('Backing', value)
HandleTrackClick(newValue) ==
    /\ mounted
    /\ InFlight < MaxInFlight
    /\ faderValue' = 2 * newValue
    /\ faderReqs' = faderReqs \cup
         {[seq |-> Cardinality(faderReqs) + 1, trackName |-> "Backing",
           value |-> newValue, body |-> FaderBody("Backing", newValue),
           phase |-> "sent", status |-> "none", intact |-> FALSE]}
    /\ lastCall' = NoCall
    /\ UNCHANGED <<snapshot, lifeVars, pollReqs, playReqs, bridgeVars,
                   discoverReqs, acked, probes, compVars, ctlVars>>

DisplayNext ==
    \/ \E e \in Effects : PollTrackVolumes(e)
    \/ \E r \in BagToSet(volumeReqs) : BridgeAnswerTrackVolumes(r)
    \/ \E r \in BagToSet(volumeReqs) : PollTrackVolumesOk(r)
    \/ \E r \in BagToSet(volumeReqs) : PollTrackVolumesError(r)
    \/ \E v \in Volumes : HandleTrackClick(v)
    \/ \E r \in faderReqs : BridgeApplyFader(r)
    \/ \E r \in faderReqs : BridgeRejectFader(r)
    \/ \E r \in faderReqs : SendFaderChangeOk(r)
    \/ \E r \in faderReqs : SendFaderChangeRejected(r)
    \/ \E r \in faderReqs : SendFaderChangeError(r)
    \/ ExternalVolumeChange

DisplaySpec == FaderInit /\ [][DisplayNext]_vars

\* discovery: the mounted hook, the backing channel bound or not
DiscoveryInit ==
    /\ MountedInit
    /\ bridgeVolume \in Volumes
    /\ bridgeDiscovered \in BOOLEAN

DiscoveryNext ==
    \/ \E e \in Effects : PollTrackVolumes(e)
    \/ \E r \in BagToSet(volumeReqs) : BridgeAnswerTrackVolumes(r)
    \/ \E r \in BagToSet(volumeReqs) : PollTrackVolumesOk(r)
    \/ \E r \in BagToSet(volumeReqs) : PollTrackVolumesError(r)
    \/ TriggerTrackDiscovery
    \/ \E r \in BagToSet(discoverReqs) : BridgeAcceptDiscovery(r)
    \/ \E r \in BagToSet(discoverReqs) : BridgeRejectDiscovery(r)
    \/ \E r \in BagToSet(discoverReqs) : TriggerTrackDiscoveryOk(r)
    \/ \E r \in BagToSet(discoverReqs) : TriggerTrackDiscoveryRejected(r)
    \/ \E r \in BagToSet(discoverReqs) : TriggerTrackDiscoveryError(r)
    \/ ExternalVolumeChange
    \/ BridgeDiscoveryChange

DiscoverySpec == DiscoveryInit /\ [][DiscoveryNext]_vars

\* probes: the three pollers from the first commit on, counting the
\* connection probes that fail in a row; no intent is submitted
ProbeNext ==
    \/ Mount
    \/ \E e \in Effects : CheckConnection(e)
    \/ \E e \in Effects : PollPlayState(e)
    \/ \E e \in Effects : PollTrackVolumes(e)
    \/ \E r \in BagToSet(statusReqs) : BridgeAnswerStatus(r)
    \/ \E r \in BagToSet(statusReqs) : ProbeOk(r)
    \/ \E r \in BagToSet(statusReqs) : ProbeFailed(r)
    \/ \E r \in BagToSet(playStateReqs) : BridgeAnswerPlayState(r)
    \/ \E r \in BagToSet(playStateReqs) : PollPlayStateOk(r)
    \/ \E r \in BagToSet(playStateReqs) : PollPlayStateError(r)
    \/ \E r \in BagToSet(volumeReqs) : BridgeAnswerTrackVolumes(r)
    \/ \E r \in BagToSet(volumeReqs) : PollTrackVolumesOk(r)
    \/ \E r \in BagToSet(volumeReqs) : PollTrackVolumesError(r)
    \/ ExternalTransportChange

ProbeSpec == Init /\ [][ProbeNext]_vars

\* recovery: the pollers and transport intents the bridge rejects, next to a
\* bridge that fails arbitrarily until, at some point, it stays reachable and
\* connected (bridgeStable); from then on no request fails to complete
BridgeStabilises ==
    /\ ~bridgeStable
    /\ bridgeStable' = TRUE
    /\ lastCall' = NoCall
    /\ UNCHANGED <<extVars, sideVars, snapshot, lifeVars, pollReqs, playReqs,
                   bridgePlaying, bridgeVolume, bridgeDiscovered>>

IssueProbe == CheckConnection("live")
AnswerProbe == \E r \in BagToSet(statusReqs) : BridgeAnswerStatus(r)
DeliverProbe ==
    \E r \in BagToSet(statusReqs) : CheckConnectionOk(r) /\ UNCHANGED probes
AnswerPlayState == \E r \in BagToSet(playStateReqs) : BridgeAnswerPlayState(r)
DeliverPlayState == \E r \in BagToSet(playStateReqs) : PollPlayStateOk(r)
AnswerVolumes == \E r \in BagToSet(volumeReqs) : BridgeAnswerTrackVolumes(r)
DeliverVolumes == \E r \in BagToSet(volumeReqs) : PollTrackVolumesOk(r)
RejectPlay == \E r \in playReqs : BridgeRejectPlay(r)
DeliverRejection == \E r \in playReqs : TogglePlayPauseRejected(r)

LiveNext ==
    \/ Mount
    \/ IssueProbe
    \/ CheckConnection("cleaned")
    \/ \E e \in Effects : PollPlayState(e)
    \/ \E e \in Effects : PollTrackVolumes(e)
    \/ AnswerProbe
    \/ DeliverProbe
    \/ \E r \in BagToSet(statusReqs) :
          ~bridgeStable /\ CheckConnectionError(r) /\ UNCHANGED probes
    \/ AnswerPlayState
    \/ DeliverPlayState
    \/ \E r \in BagToSet(playStateReqs) : ~bridgeStable /\ PollPlayStateError(r)
    \/ AnswerVolumes
    \/ DeliverVolumes
    \/ \E r \in BagToSet(volumeReqs) : ~bridgeStable /\ PollTrackVolumesError(r)
    \/ TogglePlayPause
    \/ RejectPlay
    \/ DeliverRejection
    \/ \E r \in playReqs : ~bridgeStable /\ TogglePlayPauseError(r)
    \/ BridgeStabilises

\* the connection timer keeps firing; a reachable bridge answers every
\* request and the event loop runs every continuation
LiveFairness ==
    /\ WF_vars(Mount)
    /\ SF_vars(IssueProbe)
    /\ WF_vars(AnswerProbe) /\ WF_vars(DeliverProbe)
    /\ WF_vars(AnswerPlayState) /\ WF_vars(DeliverPlayState)
    /\ WF_vars(AnswerVolumes) /\ WF_vars(DeliverVolumes)
    /\ WF_vars(RejectPlay) /\ WF_vars(DeliverRejection)

LiveSpec == Init /\ [][LiveNext]_vars /\ LiveFairness

\* transport shown: the pollers alone (no intent is submitted), next to a
\* transport that is started and stopped on the device side and a bridge that
\* fails arbitrarily, until the bridge stays reachable and the transport is
\* left alone (bridgeStable)
TickPlayState == PollPlayState("live")

ShownNext ==
    \/ Mount
    \/ IssueProbe
    \/ CheckConnection("cleaned")
    \/ TickPlayState
    \/ PollPlayState("cleaned")
    \/ \E e \in Effects : PollTrackVolumes(e)
    \/ AnswerProbe
    \/ DeliverProbe
    \/ \E r \in BagToSet(statusReqs) :
          ~bridgeStable /\ CheckConnectionError(r) /\ UNCHANGED probes
    \/ AnswerPlayState
    \/ DeliverPlayState
    \/ \E r \in BagToSet(playStateReqs) : ~bridgeStable /\ PollPlayStateError(r)
    \/ AnswerVolumes
    \/ DeliverVolumes
    \/ \E r \in BagToSet(volumeReqs) : ~bridgeStable /\ PollTrackVolumesError(r)
    \/ ~bridgeStable /\ ExternalTransportChange
    \/ BridgeStabilises

\* the play-state timer keeps firing; a reachable bridge answers every
\* request and the event loop runs every continuation
ShownFairness ==
    /\ WF_vars(Mount)
    /\ SF_vars(TickPlayState)
    /\ WF_vars(AnswerProbe) /\ WF_vars(DeliverProbe)
    /\ WF_vars(AnswerPlayState) /\ WF_vars(DeliverPlayState)
    /\ WF_vars(AnswerVolumes) /\ WF_vars(DeliverVolumes)

ShownSpec == Init /\ [][ShownNext]_vars /\ ShownFairness

\* ------------------------------------------------------ FaderComponent
\* the component on its own: its value and isDragging states and the mouse
\* handlers; onChange is whatever the parent passed
restVars == <<snapshot, lifeVars, pollReqs, playReqs, lastCall, bridgeVars,
              faderVars, probes, ctlVars>>

\* totalTrackHeight (576 px), in the unit of faderValue
TotalTrackHeight == 2 * MaxVolume

\* e.clientY - rect.top, for a pointer on, above or below the track
PointerPositions == (0 - PointerMargin)..(TotalTrackHeight + PointerMargin)

Min(a, b) == IF a < b THEN a ELSE b
Max(a, b) == IF a > b THEN a ELSE b

\* a position turned into a value without the clamp
NewValue_Unclamped(relativeY) == TotalTrackHeight - relativeY

\* Math.max(0, Math.min(1, 1 - (relativeY / totalTrackHeight)))
NewValue(relativeY) ==
    Max(0, Min(TotalTrackHeight, TotalTrackHeight - relativeY))

\* mousedown on the handle: setIsDragging(true); on the commit the effect
\* adds the document's mousemove and mouseup listeners
HandleMouseDown ==
    /\ isDragging' = TRUE
    /\ faderObs' = [NoFaderObs EXCEPT !.event = "mousedown"]
    /\ UNCHANGED <<restVars, faderValue>>

\* mousemove on the document: handleMouseMove is a listener only while
\* isDragging, and returns at once if (!isDragging); else setValue(newValue);
\* onChange(newValue)
HandleMouseMove(relativeY) ==
    /\ IF isDragging
       THEN /\ faderValue' = NewValue(relativeY)
            /\ faderObs' = [event |-> "mousemove", relativeY |-> relativeY,
                            emitted |-> {NewValue(relativeY)}]
       ELSE /\ faderValue' = faderValue
            /\ faderObs' = [event |-> "mousemove", relativeY |-> relativeY,
                            emitted |-> {}]
    /\ UNCHANGED <<restVars, isDragging>>

\* mouseup on the document while dragging: setIsDragging(false); on the
\* commit the effect's cleanup removes the two listeners
HandleMouseUp ==
    /\ isDragging
    /\ isDragging' = FALSE
    /\ faderObs' = [NoFaderObs EXCEPT !.event = "mouseup"]
    /\ UNCHANGED <<restVars, faderValue>>

\* click on the track container: handleTrackClick: setValue(newValue);
\* onChange(newValue)
TrackClick(relativeY) ==
    /\ faderValue' = NewValue(relativeY)
    /\ faderObs' = [event |-> "click", relativeY |-> relativeY,
                    emitted |-> {NewValue(relativeY)}]
    /\ UNCHANGED <<restVars, isDragging>>

\* useState(initialValue), for any initialValue in [0,1]
ComponentInit ==
    /\ HookInit
    /\ bridgePlaying = "false"
    /\ faderValue \in 0..TotalTrackHeight
    /\ isDragging = FALSE
    /\ faderObs = NoFaderObs
    /\ midiController = [isConnected |-> "false", playStateCallback |-> "null",
                         playStatePollingInterval |-> NullHandle,
                         connectionPollingInterval |-> NullHandle]
    /\ activeIntervals = [playState |-> {}, connection |-> {}]
    /\ ctlStatusReqs = EmptyBag
    /\ ctlPlayStateReqs = EmptyBag
    /\ ctlObs = NoCtlObs

ComponentNext ==
    \/ HandleMouseDown
    \/ \E y \in PointerPositions : HandleMouseMove(y)
    \/ HandleMouseUp
    \/ \E y \in PointerPositions : TrackClick(y)

ComponentSpec == ComponentInit /\ [][ComponentNext]_vars

\* ------------------------------------------- MIDIController (HTTP class)
\* the singleton `midiController` used by the earlier hook: initialize(),
\* checkConnection(), the two polling timers, stopPolling(), disconnect()
hookVars == <<snapshot, lifeVars, pollReqs, playReqs, lastCall, bridgeVars,
              faderVars, probes, faderValue, compVars>>

CtlInFlight == BagCardinality(ctlStatusReqs) + BagCardinality(ctlPlayStateReqs)

\* initialize() calls whose checkConnection() is still awaited
PendingInitialize ==
    LET S == {r \in BagToSet(ctlStatusReqs) : r.origin = "initialize"}
        sum[T \in SUBSET S] ==
            IF T = {} THEN 0
            ELSE LET r == CHOOSE x \in T : TRUE
                 IN  CopiesIn(r, ctlStatusReqs) + sum[T \ {r}]
    IN  sum[S]

ActiveTimers == activeIntervals.playState \cup activeIntervals.connection

\* the id setInterval returns: one no active timer has
NewTimer(used) == CHOOSE id \in 1..MaxTimers :
                     id \notin used /\ \A j \in 1..MaxTimers : j \notin used => id <= j

Obs(op) ==
    [ctlObs EXCEPT !.op = op, !.repeat = FALSE, !.invoked = FALSE,
                   !.late = "none"]

\* initialize(): `await this.checkConnection()`, whose fetch of /api/status
\* is issued at once
Initialize ==
    /\ CtlInFlight < MaxInFlight
    /\ Cardinality(ActiveTimers) + 2 * (PendingInitialize + 1) <= MaxTimers
    /\ ctlStatusReqs' = ctlStatusReqs (+)
          One([origin |-> "initialize", phase |-> "sent", connected |-> "false",
               ok |-> FALSE])
    /\ ctlObs' = [Obs("none") EXCEPT !.tornConnection = FALSE,
                                           !.tornTimers = FALSE]
    /\ UNCHANGED <<hookVars, midiController, activeIntervals, ctlPlayStateReqs>>

\* tick of the connection timer: `await this.checkConnection()`
ConnectionTick(id) ==
    /\ id \in activeIntervals.connection
    /\ CtlInFlight < MaxInFlight
    /\ ctlStatusReqs' = ctlStatusReqs (+)
          One([origin |-> "timer", phase |-> "sent", connected |-> "false",
               ok |-> FALSE])
    /\ ctlObs' = [Obs("none") EXCEPT !.tornConnection = FALSE]
    /\ UNCHANGED <<hookVars, midiController, activeIntervals, ctlPlayStateReqs>>

\* GET /status answered: 2xx with {connected, ...portInfo}, or an error
\* status whose body carries no `connected`
CtlBridgeAnswerStatus(r) ==
    /\ r.phase = "sent"
    /\ \E ok \in BOOLEAN, c \in JSBool :
          ctlStatusReqs' = (ctlStatusReqs (-) One(r)) (+)
              One([r EXCEPT !.phase = "answered", !.ok = ok,
                            !.connected = IF ok THEN c ELSE Undefined])
    /\ ctlObs' = Obs("none")
    /\ UNCHANGED <<hookVars, midiController, activeIntervals, ctlPlayStateReqs>>

\* startPlayStatePolling(); startConnectionPolling(): each stores the handle
\* of a new timer, whatever handle was stored before
StartPolling(m, connected) ==
    LET p == NewTimer(ActiveTimers)
        c == NewTimer(ActiveTimers \cup {p})
    IN  /\ midiController' = [m EXCEPT !.isConnected = connected,
                                       !.playStatePollingInterval = p,
                                       !.connectionPollingInterval = c]
        /\ activeIntervals' =
              [playState |-> activeIntervals.playState \cup {p},
               connection |-> activeIntervals.connection \cup {c}]

\* checkConnection() resumes: this.isConnected = data.connected; return
\* response.ok; an initialize() awaiting it starts the two timers when it
\* returned true
CtlCheckConnectionOk(r) ==
    /\ r.phase = "answered"
    /\ ctlStatusReqs' = ctlStatusReqs (-) One(r)
    /\ IF r.origin = "initialize" /\ r.ok
       THEN StartPolling(midiController, r.connected)
       ELSE /\ midiController' = [midiController EXCEPT !.isConnected = r.connected]
            /\ UNCHANGED activeIntervals
    /\ ctlObs' = Obs("none")
    /\ UNCHANGED <<hookVars, ctlPlayStateReqs>>

\* the fetch rejects: catch: this.isConnected = false; return false
CtlCheckConnectionError(r) ==
    /\ ctlStatusReqs' = ctlStatusReqs (-) One(r)
    /\ midiController' = [midiController EXCEPT !.isConnected = "false"]
    /\ ctlObs' = Obs("none")
    /\ UNCHANGED <<hookVars, activeIntervals, ctlPlayStateReqs>>

\* tick of a play-state timer: fetch /api/play-state
PlayStateTick(id) ==
    /\ id \in activeIntervals.playState
    /\ CtlInFlight < MaxInFlight
    /\ ctlPlayStateReqs' = ctlPlayStateReqs (+)
          One([phase |-> "sent", ok |-> FALSE, is_playing |-> "false",
               atDisconnect |-> "none"])
    /\ ctlObs' = Obs("none")
    /\ UNCHANGED <<hookVars, midiController, activeIntervals, ctlStatusReqs>>

\* GET /play-state answered: 2xx with {is_playing}, or an error status
CtlBridgeAnswerPlayState(r) ==
    /\ r.phase = "sent"
    /\ \E ok \in BOOLEAN :
          ctlPlayStateReqs' = (ctlPlayStateReqs (-) One(r)) (+)
              One([r EXCEPT !.phase = "answered", !.ok = ok,
                            !.is_playing = IF ok THEN bridgePlaying ELSE Undefined])
    /\ ctlObs' = Obs("none")
    /\ UNCHANGED <<hookVars, midiController, activeIntervals, ctlStatusReqs>>

\* the timer callback resumes:
\* if (this.playStateCallback && response.ok) this.playStateCallback(...)
PlayStateDelivered(r) ==
    /\ r.phase = "answered"
    /\ ctlPlayStateReqs' = ctlPlayStateReqs (-) One(r)
    /\ ctlObs' = [Obs("playStateDelivered") EXCEPT
                     !.invoked = (midiController.playStateCallback # "null" /\ r.ok),
                     !.late = IF r.ok THEN r.atDisconnect ELSE "none"]
    /\ UNCHANGED <<hookVars, midiController, activeIntervals, ctlStatusReqs>>

\* the fetch rejects: catch: console.error
PlayStateFailed(r) ==
    /\ ctlPlayStateReqs' = ctlPlayStateReqs (-) One(r)
    /\ ctlObs' = Obs("none")
    /\ UNCHANGED <<hookVars, midiController, activeIntervals, ctlStatusReqs>>

\* setPlayStateCallback(callback) / onPlayStateChange(callback)
SetPlayStateCallback(callback) ==
    /\ midiController' = [midiController EXCEPT !.playStateCallback = callback]
    /\ ctlObs' = [Obs("none") EXCEPT
                     !.tornCallback = IF callback = "null" THEN @ ELSE FALSE]
    /\ UNCHANGED <<hookVars, activeIntervals, ctlStatusReqs, ctlPlayStateReqs>>

\* the object and the active timers after a stopPolling() that stops one
\* timer per call
StopPolling_OnePerCall(m, t) ==
    IF m.playStatePollingInterval # NullHandle
    THEN [object |-> [m EXCEPT !.playStatePollingInterval = NullHandle],
          timers |-> [t EXCEPT !.playState = @ \ {m.playStatePollingInterval}]]
    ELSE [object |-> [m EXCEPT !.connectionPollingInterval = NullHandle],
          timers |-> [t EXCEPT !.connection = @ \ {m.connectionPollingInterval}]]

\* the object and the active timers after stopPolling(): each handle that is
\* set is cleared and nulled
StopPolling(m, t) ==
    [object |-> [m EXCEPT !.playStatePollingInterval = NullHandle,
                          !.connectionPollingInterval = NullHandle],
     timers |-> [playState |-> t.playState \ {m.playStatePollingInterval},
                 connection |-> t.connection \ {m.connectionPollingInterval}]]

\* a call of stopPolling()
CallStopPolling ==
    /\ midiController' = StopPolling(midiController, activeIntervals).object
    /\ activeIntervals' = StopPolling(midiController, activeIntervals).timers
    /\ ctlObs' = [Obs("stopPolling") EXCEPT !.repeat = (ctlObs.op = "stopPolling")]
    /\ UNCHANGED <<hookVars, ctlStatusReqs, ctlPlayStateReqs>>

\* observation: the play-state polls in flight when disconnect() is called, marked
\* (once) with the callback registered at that time
AtDisconnect(reqs, cb) ==
    LET S == BagToSet(reqs)
        mark(r) == IF r.atDisconnect = "none"
                   THEN [r EXCEPT !.atDisconnect = cb] ELSE r
        unmark(q) == [q EXCEPT !.atDisconnect = "none"]
    IN  [q \in {mark(r) : r \in S} |->
            (IF q \in S THEN reqs[q] ELSE 0)
            + (IF q.atDisconnect = cb /\ unmark(q) \in S
               THEN reqs[unmark(q)] ELSE 0)]

\* a disconnect() that leaves the callback registered
Disconnect_KeepsCallback ==
    /\ midiController' =
          [StopPolling(midiController, activeIntervals).object
              EXCEPT !.isConnected = "false"]
    /\ activeIntervals' = StopPolling(midiController, activeIntervals).timers
    /\ ctlPlayStateReqs' =
          AtDisconnect(ctlPlayStateReqs, midiController.playStateCallback)
    /\ UNCHANGED ctlStatusReqs
    /\ ctlObs' = [Obs("disconnect") EXCEPT
                     !.repeat = (ctlObs.op = "disconnect"),
                     !.tornCallback = TRUE, !.tornConnection = TRUE,
                     !.tornTimers = TRUE]
    /\ UNCHANGED hookVars

\* disconnect(): this.stopPolling(); this.isConnected = false;
\* this.playStateCallback = null
Disconnect ==
    /\ midiController' =
          [StopPolling(midiController, activeIntervals).object
              EXCEPT !.isConnected = "false", !.playStateCallback = "null"]
    /\ activeIntervals' = StopPolling(midiController, activeIntervals).timers
    /\ ctlPlayStateReqs' =
          AtDisconnect(ctlPlayStateReqs, midiController.playStateCallback)
    /\ UNCHANGED ctlStatusReqs
    /\ ctlObs' = [Obs("disconnect") EXCEPT
                     !.repeat = (ctlObs.op = "disconnect"),
                     !.tornCallback = TRUE, !.tornConnection = TRUE,
                     !.tornTimers = TRUE]
    /\ UNCHANGED hookVars

CtlNext ==
    \/ Initialize
    \/ \E id \in 1..MaxTimers : ConnectionTick(id)
    \/ \E r \in BagToSet(ctlStatusReqs) : CtlBridgeAnswerStatus(r)
    \/ \E r \in BagToSet(ctlStatusReqs) : CtlCheckConnectionOk(r)
    \/ \E r \in BagToSet(ctlStatusReqs) : CtlCheckConnectionError(r)
    \/ \E id \in 1..MaxTimers : PlayStateTick(id)
    \/ \E r \in BagToSet(ctlPlayStateReqs) : CtlBridgeAnswerPlayState(r)
    \/ \E r \in BagToSet(ctlPlayStateReqs) : PlayStateDelivered(r)
    \/ \E r \in BagToSet(ctlPlayStateReqs) : PlayStateFailed(r)
    \/ \E cb \in {"null", "handlePlayStateChange"} : SetPlayStateCallback(cb)
    \/ CallStopPolling
    \/ Disconnect

CtlInit == Init /\ bridgePlaying = "false"

CtlSpec == CtlInit /\ [][CtlNext]_vars

\* recovery of the MIDIController: initialize() has just been called, once,
\* next to a bridge that fails arbitrarily until it stays reachable and
\* connected (bridgeStable); nothing calls initialize(), stopPolling() or
\* disconnect() afterwards
CtlLiveInit ==
    /\ HookInit
    /\ bridgePlaying = "false"
    /\ faderValue = InitialValue
    /\ isDragging = FALSE
    /\ faderObs = NoFaderObs
    /\ midiController = [isConnected |-> "false", playStateCallback |-> "null",
                         playStatePollingInterval |-> NullHandle,
                         connectionPollingInterval |-> NullHandle]
    /\ activeIntervals = [playState |-> {}, connection |-> {}]
    /\ ctlStatusReqs = One([origin |-> "initialize", phase |-> "sent",
                            connected |-> "false", ok |-> FALSE])
    /\ ctlPlayStateReqs = EmptyBag
    /\ ctlObs = NoCtlObs

\* a bridge that stays reachable answers 2xx with connected: true
CtlAnswerProbe ==
    \E r \in BagToSet(ctlStatusReqs) :
        /\ CtlBridgeAnswerStatus(r)
        /\ bridgeStable =>
              [r EXCEPT !.phase = "answered", !.ok = TRUE, !.connected = "true"]
                  \in BagToSet(ctlStatusReqs')
CtlDeliverProbe == \E r \in BagToSet(ctlStatusReqs) : CtlCheckConnectionOk(r)
CtlAnswerPoll ==
    \E r \in BagToSet(ctlPlayStateReqs) :
        /\ CtlBridgeAnswerPlayState(r)
        /\ bridgeStable =>
              [r EXCEPT !.phase = "answered", !.ok = TRUE,
                        !.is_playing = bridgePlaying]
                  \in BagToSet(ctlPlayStateReqs')
CtlDeliverPoll == \E r \in BagToSet(ctlPlayStateReqs) : PlayStateDelivered(r)
CtlProbeTick == \E id \in 1..MaxTimers : ConnectionTick(id)

CtlLiveNext ==
    \/ CtlProbeTick
    \/ \E id \in 1..MaxTimers : PlayStateTick(id)
    \/ CtlAnswerProbe
    \/ CtlDeliverProbe
    \/ \E r \in BagToSet(ctlStatusReqs) :
          ~bridgeStable /\ CtlCheckConnectionError(r)
    \/ CtlAnswerPoll
    \/ CtlDeliverPoll
    \/ \E r \in BagToSet(ctlPlayStateReqs) : ~bridgeStable /\ PlayStateFailed(r)
    \/ SetPlayStateCallback("handlePlayStateChange")
    \/ BridgeStabilises

\* an active connection timer keeps firing; a reachable bridge answers every
\* request and the event loop runs every continuation
CtlLiveFairness ==
    /\ SF_vars(CtlProbeTick)
    /\ WF_vars(CtlAnswerProbe) /\ WF_vars(CtlDeliverProbe)
    /\ WF_vars(CtlAnswerPoll) /\ WF_vars(CtlDeliverPoll)

CtlLiveSpec == CtlLiveInit /\ [][CtlLiveNext]_vars /\ CtlLiveFairness

TypeOK ==
    /\ isConnected \in BOOLEAN
    /\ isPlaying \in JSBool \cup {Undefined}
    /\ backingVolume \in Volumes
    /\ trackDiscoveryComplete \in BOOLEAN
    /\ mounted \in BOOLEAN
    /\ bridgePlaying \in JSBool

\* ====================================================== properties
FailedOutcomes == {"rejected", "network error"}

\* a GET /status or GET /play-state continuation ran in this step
PassivePollDelivered ==
    \/ BagCardinality(statusReqs') < BagCardinality(statusReqs)
    \/ BagCardinality(playStateReqs') < BagCardinality(playStateReqs)

\* C1: cached isPlaying changes only in a step that delivers the ok
\* confirmation of a togglePlayPause request, or that delivers a passive poll
\* response (GET /play-state, GET /status) while no togglePlayPause request
\* is in flight; a passive poll response delivered while one is in flight
\* leaves isPlaying unchanged.
C1_OnlyTerminalOrIdlePoll ==
    [][/\ isPlaying' # isPlaying =>
            \/ lastCall'.outcome = "ok"
            \/ PassivePollDelivered /\ playReqs = {}
       /\ PassivePollDelivered /\ playReqs # {} => isPlaying' = isPlaying]_vars

\* C2: when the response of a play-state poll issued before a togglePlayPause
\* submission is delivered after that intent's ok confirmation, and the cache
\* holds the confirmed value, the cache still holds it afterwards.
C2_StalePollDoesNotOverwrite ==
    [][\A q \in BagToSet(playStateReqs) :
          ( /\ BagCardinality(playStateReqs') < BagCardinality(playStateReqs)
            /\ CopiesIn(q, playStateReqs') < CopiesIn(q, playStateReqs)
            /\ q.superseded # "none"
            /\ isPlaying = q.superseded )
          => isPlaying' = q.superseded]_vars

\* C3: a togglePlayPause request asking for play=true saw a play-state poll
\* deliver is_playing=false while it was outstanding; right after its ok
\* confirmation is delivered, cached isPlaying is the confirmed is_playing.
C3_ConfirmationWinsOverStalePoll ==
    (lastCall.outcome = "ok" /\ lastCall.play = "true" /\ lastCall.staleFalse)
        => isPlaying = lastCall.is_playing

C3_Witness ==
    /\ lastCall.outcome = "ok" /\ lastCall.play = "true" /\ lastCall.staleFalse
    /\ lastCall.is_playing = "true"
    /\ isPlaying = "true"

\* C4: right after any ok confirmation of togglePlayPause, cached isPlaying
\* is the is_playing carried by the response, whatever value was requested.
C4_CacheIsConfirmedValue ==
    lastCall.outcome = "ok" => isPlaying = lastCall.is_playing

C4_Witness ==
    /\ lastCall.outcome = "ok"
    /\ lastCall.is_playing # lastCall.play
    /\ isPlaying = lastCall.is_playing

\* C5: the step that delivers the failure of a togglePlayPause request (the
\* request did not complete, or the body has a non-ok status) leaves
\* isConnected, isPlaying, backingVolume and trackDiscoveryComplete unchanged.
C5_FailureLeavesCache ==
    [][lastCall'.outcome \in FailedOutcomes => UNCHANGED snapshot]_vars

C5_Witness ==
    /\ lastCall.outcome \in FailedOutcomes
    /\ isConnected /\ backingVolume = MaxVolume /\ trackDiscoveryComplete

\* C6: the result togglePlayPause returns after a failure (rejected, network
\* error, not connected) differs from the result it returned after an ok
\* confirmation (stated for a call that completes right after an ok one).
C6_OutcomeReported ==
    [][( /\ lastCall.outcome = "ok"
         /\ lastCall'.outcome \in FailedOutcomes \cup {"not connected"} )
       => lastCall'.result # lastCall.result]_vars

\* C7: at most one togglePlayPause request (POST /play) is in flight.
C7_NotPipelined == Cardinality(playReqs) <= 1

\* C8: when the ok confirmation of a togglePlayPause call is delivered right
\* after the ok confirmation of a call submitted later (the completed call
\* had rank lastCall.seq among the outstanding ones, so every outstanding
\* call of lower rank is older), cached isPlaying is still the is_playing
\* confirmed for the later call.
C8_LatestIntentWins ==
    [][( /\ lastCall.outcome = "ok"
         /\ lastCall'.outcome = "ok"
         /\ lastCall'.seq < lastCall.seq )
       => isPlaying' = lastCall.is_playing]_vars

\* togglePlayPause was invoked in this step: it returned early or sent a
\* POST /play
TogglePlayPauseCalled ==
    \/ lastCall'.outcome = "not connected"
    \/ Cardinality(playReqs') > Cardinality(playReqs)

\* C11: a togglePlayPause call made while cached isConnected is false issues
\* no request (no POST /play, nor any other) and leaves isConnected,
\* isPlaying, backingVolume and trackDiscoveryComplete unchanged.
C11_ToggleFailsFast ==
    [][(~isConnected /\ TogglePlayPauseCalled)
         => /\ playReqs' = playReqs
            /\ UNCHANGED <<pollReqs, faderReqs, discoverReqs>>
            /\ UNCHANGED snapshot]_vars

C11_Witness ==
    /\ lastCall.outcome = "not connected"
    /\ ~isConnected
    /\ playReqs = {}

\* poll requests in flight that were issued by a cleaned-up effect
CleanedInFlight ==
    LET n(b) == BagCardinality([r \in {x \in BagToSet(b) : x.effect = "cleaned"}
                                  |-> CopiesIn(r, b)])
    IN  n(statusReqs) + n(playStateReqs) + n(volumeReqs)

\* a step issues a request on behalf of a cleaned-up effect: a request of
\* such an effect, not yet answered, gains a copy in the bag of requests
CleanedIssued(b, c) ==
    \E r \in BagToSet(c) :
        /\ r.effect = "cleaned" /\ r.phase = "sent"
        /\ CopiesIn(r, c) > CopiesIn(r, b)

\* C9: the delivery of a response to a request issued by an effect whose
\* cleanup has run changes none of isConnected, isPlaying, backingVolume,
\* trackDiscoveryComplete.
C9_NoMutationAfterCleanup ==
    [][CleanedInFlight' < CleanedInFlight => UNCHANGED snapshot]_vars

\* C10: after the first commit, none of the three timers of a cleaned-up
\* effect is active and no new GET /status, GET /play-state or
\* GET /track-volumes request is issued by a cleaned-up effect.
C10_CleanupCancelsTimers ==
    [][mounted =>
          /\ "cleaned" \notin intervals.connectionInterval
          /\ "cleaned" \notin intervals.playStateInterval
          /\ "cleaned" \notin intervals.volumeInterval
          /\ ~CleanedIssued(statusReqs, statusReqs')
          /\ ~CleanedIssued(playStateReqs, playStateReqs')
          /\ ~CleanedIssued(volumeReqs, volumeReqs')]_vars

\* the cleanup has run (its effect's GET /status is still in flight) and the
\* live effect polls
C10_Witness ==
    /\ CleanedInFlight = 1
    /\ intervals.connectionInterval = {"live"}
    /\ intervals.playStateInterval = {"live"}
    /\ intervals.volumeInterval = {"live"}
    /\ \E r \in BagToSet(volumeReqs) : r.effect = "live"

\* ------------------------------------------------------------ faders
FaderOutcomes == {"fader ok", "fader rejected", "fader network error"}

\* C12: while cached isConnected is false no POST /fader request is issued.
C12_FaderFailsFast ==
    [][~isConnected => Cardinality(faderReqs') <= Cardinality(faderReqs)]_vars

\* C13: the value in the body of every POST /fader request lies in the fader
\* range 0..MaxVolume.
C13_TransmittedValueInRange ==
    \A r \in faderReqs : r.body.value \in Volumes

\* C14: a step in which a sendFaderChange call completes removes its request
\* and issues none (nothing is re-sent), no step issues more than one
\* POST /fader, and the call returns true exactly when it completed on the
\* status ok branch, false on the non-ok and network error branches.
C14_FaderSingleShot ==
    [][/\ Cardinality(faderReqs') <= Cardinality(faderReqs) + 1
       /\ lastCall'.outcome \in FaderOutcomes =>
            /\ Cardinality(faderReqs') = Cardinality(faderReqs) - 1
            /\ \A p \in faderReqs' : p.phase = "sent" =>
                  \E q \in faderReqs : q.phase = "sent" /\ q.value = p.value
            /\ lastCall'.result \in {"true", "false"}
            /\ lastCall'.result = "true" <=> lastCall'.outcome = "fader ok"]_vars

C14_Witness ==
    /\ lastCall.outcome = "fader network error"
    /\ lastCall.result = "false"
    /\ faderReqs = {}

C20_DiscoveryObservedByPoll ==
    [][/\ discoverReqs' # discoverReqs =>
            UNCHANGED <<trackDiscoveryComplete, backingVolume>>
       /\ (~trackDiscoveryComplete /\ trackDiscoveryComplete') =>
            /\ lastCall'.outcome = "volumes polled"
            /\ \E r \in BagToSet(volumeReqs) :
                 /\ r.phase = "answered" /\ r.discovered
                 /\ CopiesIn(r, volumeReqs') < CopiesIn(r, volumeReqs)
                 /\ backingVolume' = r.backing]_vars

\* triggerTrackDiscovery returned true and the bridge has bound the channel,
\* but no poll has reported it yet
C20_Witness ==
    /\ lastCall.outcome = "discovery ok"
    /\ lastCall.result = "true"
    /\ bridgeDiscovered
    /\ ~trackDiscoveryComplete
    /\ backingVolume = 0

\* ------------------------------------------------------------ probes
\* the response r of bag b is delivered to its continuation in this step
Delivered(r, b, c) ==
    /\ r.phase = "answered"
    /\ BagCardinality(c) < BagCardinality(b)
    /\ CopiesIn(r, c) < CopiesIn(r, b)
    /\ lastCall'.outcome # "poll failed"

\* C16: once ProbeLimit connection probes in a row have failed isConnected is
\* false; the next successful probe reporting connected=true sets it to true;
\* every play-state and track-volumes response delivered after that recovery
\* sets isPlaying and backingVolume to the values the bridge reported.
C16_DemotionAndRecovery ==
    [][/\ probes'.failed = ProbeLimit => ~isConnected'
       /\ (probes'.recovered /\ ~probes.recovered) => isConnected'
       /\ \A r \in BagToSet(playStateReqs) :
            (probes.recovered /\ Delivered(r, playStateReqs, playStateReqs'))
                => isPlaying' = r.is_playing
       /\ \A r \in BagToSet(volumeReqs) :
            (probes.recovered /\ Delivered(r, volumeReqs, volumeReqs'))
                => backingVolume' = r.backing]_vars

\* three failed probes, a successful one, and both state polls delivered
C16_Witness ==
    /\ probes.recovered
    /\ isConnected
    /\ lastCall.outcome = "volumes polled"
    /\ backingVolume = MaxVolume /\ bridgeVolume = MaxVolume
    /\ isPlaying = "true" /\ bridgePlaying = "true"

\* C17: a failed connection probe that is not the ProbeLimit-th in a row
\* leaves isConnected true.
C17_DemotedOnlyAfterLimit ==
    [][( /\ isConnected
         /\ probes'.failed > probes.failed
         /\ probes'.failed < ProbeLimit )
       => isConnected']_vars

\* C18: the step in which a GET /play-state or GET /track-volumes fails leaves
\* isConnected, isPlaying, backingVolume and trackDiscoveryComplete unchanged
\* and leaves the timers as they are, the play-state and track-volumes timers
\* of the live effect active.
C18_FailedPollTolerated ==
    [][lastCall'.outcome = "poll failed" =>
          /\ UNCHANGED snapshot
          /\ UNCHANGED intervals
          /\ "live" \in intervals'.playStateInterval
          /\ "live" \in intervals'.volumeInterval]_vars

C18_Witness ==
    /\ lastCall.outcome = "poll failed"
    /\ isConnected /\ trackDiscoveryComplete /\ backingVolume = MaxVolume
    /\ "live" \in intervals.playStateInterval
    /\ "live" \in intervals.volumeInterval

\* ---------------------------------------------------------- recovery
TimersActive ==
    /\ "live" \in intervals.connectionInterval
    /\ "live" \in intervals.playStateInterval
    /\ "live" \in intervals.volumeInterval

\* C19: whatever probes, polls and intents have failed, the three timers of
\* the mounted hook are active; and once the bridge stays reachable and
\* reports connected=true, isConnected eventually is true for good.
C19_RecoversUnattended ==
    /\ [](mounted => TimersActive)
    /\ bridgeStable ~> [](isConnected)

\* the bridge has become stable, a rejected intent has just completed, and
\* the connection is observed
C19_Witness ==
    /\ bridgeStable
    /\ lastCall.outcome = "rejected"
    /\ isConnected
    /\ TimersActive

\* --------------------------------------------------------- lifecycle
\* a response (or the failure) of some request is delivered in this step
ResponseDelivered ==
    \/ BagCardinality(statusReqs') < BagCardinality(statusReqs)
    \/ BagCardinality(playStateReqs') < BagCardinality(playStateReqs)
    \/ Cardinality(playReqs') < Cardinality(playReqs)

\* C21: before the first commit isConnected is false and isPlaying is false;
\* isConnected and isPlaying change only in a step that delivers the response
\* of a GET /status, GET /play-state or POST /play request, and never in the
\* step in which togglePlayPause is invoked.
C21_MutatedOnlyByResponses ==
    [][/\ ~mounted => (~isConnected /\ isPlaying = "false")
       /\ <<isConnected, isPlaying>>' # <<isConnected, isPlaying>>
            => ResponseDelivered
       /\ TogglePlayPauseCalled
            => UNCHANGED <<isConnected, isPlaying>>]_vars

\* a POST /play has just been submitted and the cache still shows the
\* opposite of what was requested
C21_Witness ==
    /\ isConnected
    /\ \E r \in playReqs : r.phase = "sent" /\ r.play # isPlaying
    /\ playStateReqs = EmptyBag /\ statusReqs = EmptyBag

\* C22: once the backing channel is discovered, the 'Backing' fader shows the
\* latest of the confirmed write and the track-volumes poll; in particular,
\* right after a poll was delivered (it is then the latest), the fader shows
\* the polled backing volume
C22_DisplayFollowsLatest ==
    (lastCall.outcome = "volumes polled" /\ trackDiscoveryComplete)
        => DisplayedValue = 2 * backingVolume

\* C23: once the transport, started or stopped on the device side, is left
\* alone and the bridge stays reachable, with no togglePlayPause issued, the
\* cached isPlaying eventually equals the bridge's is_playing.
C23_ExternalChangeShown == bridgeStable ~> (isPlaying = bridgePlaying)

\* the cache shows the transport state of the stable bridge while a play-state
\* response taken before the device-side change is still to be delivered
C23_Witness ==
    /\ bridgeStable
    /\ isPlaying = bridgePlaying
    /\ playReqs = {}
    /\ \E r \in BagToSet(playStateReqs) :
          r.phase = "answered" /\ r.is_playing # bridgePlaying

\* C24: cached isPlaying is true or false in every reachable state, whatever
\* responses of the interface's shapes are delivered (GET /status answers
\* {connected, ...portInfo}).
C24_IsPlayingBoolean == isPlaying \in JSBool

\* the bridge processes a POST /play request in this step
PlayProcessed ==
    \E r \in playReqs :
        /\ r.phase = "sent"
        /\ r \notin playReqs'
        /\ [r EXCEPT !.phase = "applied"] \in playReqs'

\* C25: a togglePlayPause (issued while isConnected) that the bridge accepts
\* leaves the bridge's play state the opposite of what it was when the bridge
\* processed the request, also when the transport was started or stopped on
\* the device side since the last poll.
C25_ToggleFlipsTransport ==
    [][PlayProcessed => bridgePlaying' = Not(bridgePlaying)]_vars

\* ------------------------------------------------------ MIDIController
HandlesNull ==
    /\ midiController.playStatePollingInterval = NullHandle
    /\ midiController.connectionPollingInterval = NullHandle

\* C26: whatever initialize() calls have succeeded, at most one play-state
\* timer and at most one connection timer are active, and right after a
\* stopPolling() no timer is active.
C26_InitializeIdempotent ==
    /\ Cardinality(activeIntervals.playState) <= 1
    /\ Cardinality(activeIntervals.connection) <= 1
    /\ ctlObs.op = "stopPolling" => ActiveTimers = {}

\* C27: a stopPolling() right after a stopPolling(), and a disconnect() right
\* after a disconnect(), changes nothing of the object or the timers; after
\* stopPolling() both handles are null, and after disconnect() isConnected is
\* false and playStateCallback is null as well; also when polling never
\* started.
C27_StopIdempotent ==
    [][/\ (ctlObs'.op \in {"stopPolling", "disconnect"} /\ ctlObs'.op = ctlObs.op)
            => UNCHANGED <<midiController, activeIntervals>>
       /\ ctlObs'.op \in {"stopPolling", "disconnect"} => HandlesNull'
       /\ ctlObs'.op = "disconnect"
            => /\ midiController'.isConnected = "false"
               /\ midiController'.playStateCallback = "null"]_vars

\* disconnect() was called twice in a row while fetches were in flight
C27_Witness ==
    /\ ctlObs.op = "disconnect"
    /\ ctlObs.repeat
    /\ CtlInFlight > 0

\* C28: from the return of disconnect() until a callback is registered
\* again, no step invokes the play-state callback, whatever play-state
\* response is delivered.
C28_NoCallbackAfterDisconnect ==
    [][ctlObs.tornCallback => ~ctlObs'.invoked]_vars

\* an ok play-state response that was in flight when disconnect() removed the
\* registered callback has been delivered, with no callback registered since
C28_Witness ==
    /\ ctlObs.op = "playStateDelivered"
    /\ ctlObs.late = "handlePlayStateChange"
    /\ ctlObs.tornCallback
    /\ ~ctlObs.invoked

\* C29: from the return of disconnect() until initialize() or
\* checkConnection() is called again, isConnected is not true (it is false,
\* or at least falsy).
C29_StaysDisconnected ==
    ctlObs.tornConnection => midiController.isConnected # "true"

\* C30: when disconnect() has returned, initialize() was not called since and
\* no fetch is in flight, no polling timer is active and both handles are
\* null.
C30_NoTimerAfterDisconnect ==
    (ctlObs.tornTimers /\ CtlInFlight = 0)
        => (HandlesNull /\ ActiveTimers = {})

\* C31: once the bridge stays reachable and connected, the MIDIController
\* whose initialize() was called while the bridge was failing eventually has
\* isConnected true, with no further call of initialize().
C31_ControllerRecovers == bridgeStable ~> (midiController.isConnected = "true")

\* ------------------------------------------------------ FaderComponent
\* C32: the value FaderComponent shows and every value it gives to onChange
\* lie in [0,1], whatever mouse-down, mouse-move, mouse-up and track-click
\* events happen at whatever pointer positions; and a mouse-move while
\* isDragging is false changes no value and calls no onChange.
C32_FaderValueInRange ==
    /\ [](/\ faderValue \in 0..TotalTrackHeight
          /\ faderObs.emitted \subseteq 0..TotalTrackHeight)
    /\ [][(faderObs'.event = "mousemove" /\ ~isDragging)
            => (faderValue' = faderValue /\ faderObs'.emitted = {})]_vars

\* a drag has taken the pointer below the track: the fader shows 0 and
\* onChange was given 0
C32_Witness ==
    /\ isDragging
    /\ faderObs.event = "mousemove"
    /\ faderObs.relativeY > TotalTrackHeight
    /\ faderValue = 0
    /\ faderObs.emitted = {0}

====
